---- MODULE Spec2Model ----
(***************************************************************************)
(* Model of the Amazon strategy assistant: the agent of                    *)
(* src/utils/ai_agent.py (AmazonStrategyAgent) and the generate-button     *)
(* handler of src/app.py.  One request is a sequence of external calls:    *)
(* classify (LLM), one to three searches (search API), synthesize (LLM).   *)
(* Texts are TLA+ strings; an emoji is written as its code point in        *)
(* brackets, e.g. "[U+1F4B0]".                                             *)
(***************************************************************************)
EXTENDS Integers, Sequences, FiniteSets, TLC

VARIABLES
    report_templates,   \* self.report_templates of the agent
    agent_ready,        \* app.py: the agent was constructed at start-up
    pc,                 \* position of the current request
    question,           \* text of the question of the current request
    research_depth,     \* depth label of the current request
    reply,              \* text the classifier LLM call returned
    analysis,           \* the Classification (research_and_analyze: analysis)
    num_searches,       \* research_and_analyze: num_searches
    all_search_results, \* research_and_analyze: all_search_results
    last_results,       \* the list the latest search_amazon_data call returned
    synth_input,        \* search_results argument received by generate_enhanced_report
    prompt,             \* prompt sent by generate_enhanced_report
    result,             \* the ResearchResult returned to the caller
    exc,                \* exception in flight / caught by the handler
    calls,              \* log of the external calls of the current request
    ui,                 \* what the page shows
    served              \* research_and_analyze has run to its end or raised before

vars == <<report_templates, agent_ready, pc, question, research_depth, reply, analysis,
          num_searches, all_search_results, last_results, synth_input, prompt,
          result, exc, calls, ui, served>>

(***************************************************************************)
(* Bounds of the model.                                                    *)
(***************************************************************************)
\* longest search_terms list the classifier LLM returns
MaxTerms == 3
\* most organic results one search-API response carries
MaxOrganic == 7

(***************************************************************************)
(* Texts.                                                                  *)
(***************************************************************************)
Missing == "<missing>"          \* a key absent from a dict

Lower == "abcdefghijklmnopqrstuvwxyz"
UpperLetters == "ABCDEFGHIJKLMNOPQRSTUVWXYZ"

\* str.upper() on one character
UpperChar(c) ==
    IF \E i \in 1..Len(Lower) : SubSeq(Lower, i, i) = c
    THEN LET i == CHOOSE j \in 1..Len(Lower) : SubSeq(Lower, j, j) = c
         IN  SubSeq(UpperLetters, i, i)
    ELSE c

RECURSIVE UpperFrom(_, _)
UpperFrom(s, i) ==
    IF i > Len(s) THEN ""
    ELSE UpperChar(SubSeq(s, i, i)) \o UpperFrom(s, i + 1)

\* str.upper()
Upper(s) == UpperFrom(s, 1)

\* s in p (substring test)
Contains(p, s) ==
    \E i \in 1..(Len(p) - Len(s) + 1) : SubSeq(p, i, i + Len(s) - 1) = s

\* seq[:n]
Slice(seq, n) == SubSeq(seq, 1, IF Len(seq) < n THEN Len(seq) ELSE n)

RECURSIVE JoinFrom(_, _, _)
JoinFrom(sep, items, i) ==
    IF i > Len(items) THEN ""
    ELSE IF i = Len(items) THEN items[i]
    ELSE items[i] \o sep \o JoinFrom(sep, items, i + 1)

\* sep.join(items)
Join(sep, items) == JoinFrom(sep, items, 1)

(***************************************************************************)
(* The template table built by __init__.                                   *)
(***************************************************************************)
ReportTemplates ==
    [c \in {"competition", "advertising", "trends", "pricing", "reviews", "general"} |->
      CASE c = "competition" ->
             [title |-> "[U+1F3C6] Competitive Analysis Report",
              sections |-> <<"Market Position", "Competitor Strengths/Weaknesses",
                             "Competitive Gaps", "Strategic Recommendations">>]
        [] c = "advertising" ->
             [title |-> "[U+1F4E2] Amazon Advertising Strategy Report",
              sections |-> <<"Current Ad Landscape", "Opportunity Analysis",
                             "Budget Allocation", "Campaign Recommendations">>]
        [] c = "trends" ->
             [title |-> "[U+1F4C8] Market Trends Analysis",
              sections |-> <<"Emerging Trends", "Consumer Behavior",
                             "Market Opportunities", "Strategic Positioning">>]
        [] c = "pricing" ->
             [title |-> "[U+1F4B0] Pricing Strategy Report",
              sections |-> <<"Price Analysis", "Competitive Pricing",
                             "Value Positioning", "Pricing Recommendations">>]
        [] c = "reviews" ->
             [title |-> "[U+2B50] Customer Sentiment Analysis",
              sections |-> <<"Review Analysis", "Customer Pain Points",
                             "Satisfaction Drivers", "Improvement Areas">>]
        [] c = "general" ->
             [title |-> "[U+1F4CA] Amazon Strategy Analysis",
              sections |-> <<"Market Overview", "Key Insights",
                             "Strategic Opportunities", "Action Plan">>]]

(***************************************************************************)
(* Values of a JSON field: a list of strings, an absent key, null, or a    *)
(* number.                                                                 *)
(***************************************************************************)
ListOf(items) == [kind |-> "list", items |-> items]
Absent == [kind |-> "missing", items |-> <<>>]
Null == [kind |-> "null", items |-> <<>>]
Number == [kind |-> "number", items |-> <<>>]

TermList(n) == [i \in 1..n |-> "term" \o ToString(i)]

\* the questions a user types; "" is the empty text area
Questions == {"", "What are pricing trends for eco-friendly products on Amazon?"}

\* app.py: the selectbox of the depth labels
DepthLabels == {"Quick Analysis", "Deep Dive", "Comprehensive Report"}

valid_categories == {"competition", "advertising", "trends", "pricing", "reviews", "general"}

\* values the fields of a JSON object returned by the classifier LLM take
TermShapes == {ListOf(TermList(n)) : n \in 0..MaxTerms} \cup {Absent, Null, Number}
FocusShapes == {ListOf(<<"competitive analysis", "market positioning">>), Absent, Number}

JsonObject(category, search_terms, focus_areas) ==
    [json |-> TRUE, type |-> "object", category |-> category,
     search_terms |-> search_terms, focus_areas |-> focus_areas,
     analysis_type |-> "competitive landscape analysis",
     key_questions |-> ListOf(<<"Who are the top competitors?">>)]

\* texts the classifier LLM call can return: text that is not JSON, JSON that
\* is not an object, an object of the requested shape under every category
\* (known, unknown or absent), and objects of every other shape under a known
\* and an unknown category
ClassifierReplies ==
    {[json |-> FALSE, type |-> "text", category |-> Missing, search_terms |-> Absent,
      focus_areas |-> Absent, analysis_type |-> Missing, key_questions |-> Absent]}
    \cup
    {[json |-> TRUE, type |-> "array", category |-> Missing, search_terms |-> Absent,
      focus_areas |-> Absent, analysis_type |-> Missing, key_questions |-> Absent]}
    \cup
    {JsonObject(c, ListOf(TermList(MaxTerms)),
                ListOf(<<"competitive analysis", "market positioning">>)) :
        c \in valid_categories \cup {"marketing", Missing}}
    \cup
    {JsonObject(c, t, f) : c \in {"pricing", "marketing"}, t \in TermShapes, f \in FocusShapes}

NoReply ==
    [json |-> FALSE, type |-> "none", category |-> Missing, search_terms |-> Absent,
     focus_areas |-> Absent, analysis_type |-> Missing, key_questions |-> Absent]

NoAnalysis ==
    [category |-> Missing, search_terms |-> Absent, focus_areas |-> Absent,
     analysis_type |-> Missing, key_questions |-> Absent]

\* the dict json.loads produced, as a Classification
AsClassification(content) ==
    [category |-> content.category, search_terms |-> content.search_terms,
     focus_areas |-> content.focus_areas, analysis_type |-> content.analysis_type,
     key_questions |-> content.key_questions]

\* a fallback that forgets the question as the search term
FallbackWithoutTerms(q) ==
    [category |-> "general",
     search_terms |-> ListOf(<<>>),
     focus_areas |-> ListOf(<<"market analysis", "opportunities", "strategy">>),
     analysis_type |-> "General Amazon strategy analysis",
     key_questions |-> ListOf(<<q>>)]

\* the except branch of analyze_strategy_question
Fallback(q) ==
    [category |-> "general",
     search_terms |-> ListOf(<<q>>),
     focus_areas |-> ListOf(<<"market analysis", "opportunities", "strategy">>),
     analysis_type |-> "General Amazon strategy analysis",
     key_questions |-> ListOf(<<q>>)]

\* analyze_strategy_question without the validation of the category
analyze_without_validation(q, content) ==
    IF ~content.json THEN Fallback(q)
    ELSE IF content.type # "object" THEN Fallback(q)
    ELSE AsClassification(content)

\* analyze_strategy_question, on the content the LLM call returned
analyze_strategy_question(q, content) ==
    IF ~content.json THEN Fallback(q)                  \* json.loads raises
    ELSE IF content.type # "object" THEN Fallback(q)   \* analysis.get raises
    ELSE IF content.category \notin valid_categories
         THEN [AsClassification(content) EXCEPT !.category = "general"]
         ELSE AsClassification(content)

(***************************************************************************)
(* The searcher.                                                           *)
(***************************************************************************)
\* dict.get(key, default) on a value that is Missing when the key is absent
Get(v, default) == IF v = Missing THEN default ELSE v

\* the i-th organic result of a search-API response
RawResult(i, flavour) ==
    IF flavour = "sparse" /\ i % 2 = 0
    THEN [title |-> "Title " \o ToString(i), snippet |-> Missing, link |-> Missing,
          displayed_link |-> Missing, source |-> "Example"]
    ELSE [title |-> "Title " \o ToString(i), snippet |-> "Snippet " \o ToString(i),
          link |-> "https://example.com/" \o ToString(i),
          displayed_link |-> "example.com", source |-> Missing]

\* what GoogleSearch(params).get_dict() can do: raise, or return a document
SearchResponses ==
    {[raises |-> TRUE, has_organic |-> FALSE, organic_results |-> <<>>],
     [raises |-> FALSE, has_organic |-> FALSE, organic_results |-> <<>>]}
    \cup
    {[raises |-> FALSE, has_organic |-> TRUE,
      organic_results |-> [i \in 1..n |-> RawResult(i, f)]] :
        n \in 0..MaxOrganic, f \in {"full", "sparse"}}

\* search_amazon_data: the search phrase of a query under a search type
search_queries(query, search_type) ==
    CASE search_type = "general" -> "Amazon " \o query \o " 2024"
      [] search_type = "competition" -> "Amazon top sellers " \o query \o " competitors"
      [] search_type = "trends" -> "Amazon marketplace trends " \o query \o " 2024"
      [] search_type = "advertising" -> "Amazon PPC advertising strategy " \o query
      [] search_type = "reviews" -> "Amazon customer reviews " \o query \o " analysis"
      [] search_type = "pricing" -> "Amazon pricing strategy " \o query \o " market"
      [] OTHER -> "Amazon " \o query

\* one normalized SearchResult
Normalize(raw) ==
    [title |-> Get(raw.title, ""),
     snippet |-> Get(raw.snippet, ""),
     link |-> Get(raw.link, ""),
     source |-> Get(raw.displayed_link, Get(raw.source, ""))]

\* a searcher that reports the exception as a result record
search_reporting_error(response) ==
    IF response.raises
    THEN <<[title |-> "Search error", snippet |-> "", link |-> "", source |-> ""]>>
    ELSE IF ~response.has_organic THEN <<>>
    ELSE LET top == Slice(response.organic_results, 6)
         IN  [i \in 1..Len(top) |-> Normalize(top[i])]

\* search_amazon_data, given what the search API did
search_amazon_data(response) ==
    IF response.raises THEN <<>>                    \* except Exception: return []
    ELSE IF ~response.has_organic THEN <<>>
    ELSE LET top == Slice(response.organic_results, 6)
         IN  [i \in 1..Len(top) |-> Normalize(top[i])]

(***************************************************************************)
(* The synthesizer's prompt.                                               *)
(***************************************************************************)
\* the date generate_enhanced_report reads from the clock
current_date == "November 05, 2026"

\* a synthesizer that always takes the general template
TemplateAlwaysGeneral(templates, template_type) == templates["general"]

\* self.report_templates.get(template_type, self.report_templates["general"])
TemplateFor(templates, template_type) ==
    IF template_type \in DOMAIN templates THEN templates[template_type]
    ELSE templates["general"]

RECURSIVE SummaryFrom(_, _)
SummaryFrom(results, i) ==
    IF i > Len(results) THEN ""
    ELSE (IF results[i].snippet # ""
          THEN "\n**Source " \o ToString(i) \o ":** " \o results[i].title \o "\n"
               \o results[i].snippet \o "\n*From: " \o results[i].source \o "*\n"
          ELSE "")
         \o SummaryFrom(results, i + 1)

\* reading every result passed in
TopResultsUnsliced(search_results) == search_results

\* the results generate_enhanced_report reads: search_results[:4]
TopResults(search_results) == Slice(search_results, 4)

\* search_summary of generate_enhanced_report
search_summary(search_results) == SummaryFrom(TopResults(search_results), 1)

\* a section heading of the prompt
SectionHeading(template, i) == Upper(template.sections[i])

\* analysis.get('focus_areas', []) can be joined
JoinRaises(a) == a.focus_areas.kind \notin {"list", "missing"}

\* the f-string of generate_enhanced_report (lines without a placeholder shortened)
BuildPrompt(q, search_results, a, template) ==
    "You are a senior Amazon strategy consultant.\n"
    \o "REPORT TYPE: " \o template.title \o "\n"
    \o "DATE: " \o current_date \o "\n"
    \o "CLIENT QUESTION: " \o q \o "\n"
    \o "ANALYSIS FRAMEWORK: " \o Get(a.analysis_type, "Strategic analysis") \o "\n"
    \o "KEY FOCUS AREAS: " \o Join(", ", a.focus_areas.items) \o "\n"
    \o "MARKET RESEARCH DATA:\n" \o search_summary(search_results) \o "\n"
    \o "# " \o template.title \o "\n"
    \o "*Generated on " \o current_date \o "*\n"
    \o "## [U+1F3AF] EXECUTIVE SUMMARY\n"
    \o "## [U+1F50D] " \o SectionHeading(template, 1) \o "\n"
    \o "## [U+1F4CA] " \o SectionHeading(template, 2) \o "\n"
    \o "## [U+1F4A1] " \o SectionHeading(template, 3) \o "\n"
    \o "## [U+1F680] " \o SectionHeading(template, 4) \o "\n"
    \o "## [U+1F4C8] KEY METRICS TO TRACK\n"
    \o "## [U+26A0] POTENTIAL RISKS & MITIGATION\n"

\* the markdown the synthesizer LLM call returns
Reports == {"# Report"}

(***************************************************************************)
(* The driver, research_and_analyze.                                       *)
(***************************************************************************)
\* search_counts.get(research_depth, 3)
search_counts(depth) ==
    CASE depth = "Quick Analysis" -> 2
      [] depth = "Deep Dive" -> 3
      [] depth = "Comprehensive Report" -> 4
      [] OTHER -> 3

\* exception raised while the argument of the primary search is evaluated:
\* analysis['search_terms'] on an absent key, [0] on a number
PrimaryArgError(a) ==
    IF a.search_terms.kind = "missing" THEN "KeyError"
    ELSE IF a.search_terms.kind = "number" THEN "TypeError"
    ELSE "none"

\* a primary search that always uses the question
PrimaryQueryIsQuestion(a, q) == q

\* analysis['search_terms'][0] if analysis['search_terms'] else question
PrimaryQuery(a, q) ==
    IF a.search_terms.kind = "list" /\ Len(a.search_terms.items) > 0
    THEN a.search_terms.items[1]
    ELSE q

\* len(analysis['search_terms']) raises (evaluated only when num_searches >= n)
LenRaises(n, min, a) == n >= min /\ a.search_terms.kind # "list"

\* a secondary search already at two intended searches
WantSecondaryAtTwo(n, a) == n >= 2 /\ Len(a.search_terms.items) > 1

\* num_searches >= 3 and len(analysis['search_terms']) > 1
WantSecondary(n, a) == n >= 3 /\ Len(a.search_terms.items) > 1

\* num_searches >= 4 and len(analysis['search_terms']) > 2
WantTertiary(n, a) == n >= 4 /\ Len(a.search_terms.items) > 2

\* every search contributing its first 3 results
ContributionOfThree(k, results) == Slice(results, 3)

\* result[:3] of the primary search, result[:2] of the others
Contribution(k, results) == Slice(results, IF k = 1 THEN 3 ELSE 2)

RECURSIVE LinksFrom(_, _)
LinksFrom(results, i) ==
    IF i > Len(results) THEN <<>>
    ELSE (IF results[i].link # "" THEN <<results[i].link>> ELSE <<>>)
         \o LinksFrom(results, i + 1)

\* [result['link'] for result in all_search_results if result['link']]
Sources(results) == LinksFrom(results, 1)

\* self.report_templates[analysis['category']] has the key
LookupRaises(templates, category) == category \notin DOMAIN templates

\* a returned dict that names the general template
ResearchResultGeneralTitle(q, a, results, report, templates) ==
    [question |-> q, analysis |-> a, search_results |-> results, report |-> report,
     sources |-> Sources(results), report_type |-> a.category,
     template_used |-> templates["general"].title]

\* the dict research_and_analyze returns
ResearchResult(q, a, results, report, templates) ==
    [question |-> q, analysis |-> a, search_results |-> results, report |-> report,
     sources |-> Sources(results), report_type |-> a.category,
     template_used |-> templates[a.category].title]

NoResult ==
    [question |-> "", analysis |-> NoAnalysis, search_results |-> <<>>, report |-> Missing,
     sources |-> <<>>, report_type |-> Missing, template_used |-> Missing]

Call(op, query, search_type, outcome) ==
    [op |-> op, query |-> query, search_type |-> search_type, outcome |-> outcome]

(***************************************************************************)
(* The page.                                                               *)
(***************************************************************************)
View(banner, template, source_count, report, sources) ==
    [banner |-> banner, template |-> template, source_count |-> source_count,
     report |-> report, sources |-> sources]

Blank == View("none", "", 0, "", <<>>)

\* app.py: what the handler shows for the returned results
ResultView(results) ==
    View("success", Get(results.template_used, "Analysis"), Len(results.sources),
         results.report, Slice(results.sources, 5))

\* app.py: the except branch of the handler
ErrorView == View("error", "", 0, "", <<>>)

Init ==
    /\ report_templates = ReportTemplates
    /\ agent_ready \in BOOLEAN
    /\ pc = "idle"
    /\ question = ""
    /\ research_depth = "Deep Dive"
    /\ reply = NoReply
    /\ analysis = NoAnalysis
    /\ num_searches = 0
    /\ all_search_results = <<>>
    /\ last_results = <<>>
    /\ synth_input = <<>>
    /\ prompt = ""
    /\ result = NoResult
    /\ exc = "none"
    /\ calls = <<>>
    /\ ui = Blank
    /\ served = FALSE

\* a run that keeps the aggregate of the previous run
RerunKeepingAggregate ==
    /\ reply' = NoReply
    /\ analysis' = NoAnalysis
    /\ num_searches' = 0
    /\ all_search_results' = all_search_results
    /\ last_results' = <<>>
    /\ synth_input' = <<>>
    /\ prompt' = ""
    /\ result' = NoResult
    /\ exc' = "none"
    /\ calls' = <<>>

\* the script reruns on a click: the locals of the previous run are gone
Rerun ==
    /\ reply' = NoReply
    /\ analysis' = NoAnalysis
    /\ num_searches' = 0
    /\ all_search_results' = <<>>
    /\ last_results' = <<>>
    /\ synth_input' = <<>>
    /\ prompt' = ""
    /\ result' = NoResult
    /\ exc' = "none"
    /\ calls' = <<>>

\* app.py: the generate button is pressed
Generate(q, d) ==
    /\ pc = "idle"
    /\ question' = q
    /\ research_depth' = d
    /\ Rerun
    /\ IF q = "" THEN pc' = "idle" /\ ui' = View("no_question", "", 0, "", <<>>)
       ELSE IF ~agent_ready THEN pc' = "idle" /\ ui' = View("not_ready", "", 0, "", <<>>)
       ELSE pc' = "classify" /\ ui' = Blank
    /\ UNCHANGED <<report_templates, agent_ready, served>>

\* an exception leaves research_and_analyze
Raise(e) ==
    /\ exc' = e
    /\ pc' = "raised"

\* a classifier whose LLM call sits inside the try block
ClassifyInsideTry ==
    /\ pc = "classify"
    /\ \/ /\ analysis' = Fallback(question)
          /\ num_searches' = search_counts(research_depth)
          /\ calls' = Append(calls, Call("classify", question, "", "raised"))
          /\ pc' = "primary"
          /\ UNCHANGED <<reply, exc>>
       \/ \E r \in ClassifierReplies :
            /\ reply' = r
            /\ analysis' = analyze_strategy_question(question, r)
            /\ num_searches' = search_counts(research_depth)
            /\ calls' = Append(calls, Call("classify", question, "", "ok"))
            /\ pc' = "primary"
            /\ exc' = exc
    /\ UNCHANGED <<report_templates, agent_ready, question, research_depth,
                   all_search_results, last_results, synth_input, prompt, result, ui, served>>

\* Step 1: analyze_strategy_question
Classify ==
    /\ pc = "classify"
    /\ \/ /\ Raise("APIError")          \* the LLM call raises
          /\ calls' = Append(calls, Call("classify", question, "", "raised"))
          /\ UNCHANGED <<reply, analysis, num_searches>>
       \/ \E r \in ClassifierReplies :
            /\ reply' = r
            /\ analysis' = analyze_strategy_question(question, r)
            /\ num_searches' = search_counts(research_depth)
            /\ calls' = Append(calls, Call("classify", question, "", "ok"))
            /\ pc' = "primary"
            /\ exc' = exc
    /\ UNCHANGED <<report_templates, agent_ready, question, research_depth,
                   all_search_results, last_results, synth_input, prompt, result, ui, served>>

\* one call of search_amazon_data by the driver, the k-th of the request
Search(k, query, search_type, next) ==
    \E response \in SearchResponses :
        LET results == search_amazon_data(response) IN
        /\ all_search_results' = all_search_results \o Contribution(k, results)
        /\ last_results' = results
        /\ calls' = Append(calls, Call("search", query, search_type,
                                       IF response.raises THEN "error" ELSE "ok"))
        /\ pc' = next
        /\ exc' = exc

\* Step 2: the primary search
PrimarySearch ==
    /\ pc = "primary"
    /\ IF PrimaryArgError(analysis) # "none"
       THEN /\ Raise(PrimaryArgError(analysis))
            /\ UNCHANGED <<all_search_results, last_results, calls>>
       ELSE Search(1, PrimaryQuery(analysis, question), analysis.category, "secondary")
    /\ UNCHANGED <<report_templates, agent_ready, question, research_depth, reply, analysis,
                   num_searches, synth_input, prompt, result, ui, served>>

\* the secondary search, under "general"
SecondarySearch ==
    /\ pc = "secondary"
    /\ IF LenRaises(num_searches, 3, analysis)
       THEN /\ Raise("TypeError")
            /\ UNCHANGED <<all_search_results, last_results, calls>>
       ELSE IF WantSecondary(num_searches, analysis)
       THEN Search(2, analysis.search_terms.items[2], "general", "tertiary")
       ELSE /\ pc' = "tertiary"
            /\ UNCHANGED <<all_search_results, last_results, calls, exc>>
    /\ UNCHANGED <<report_templates, agent_ready, question, research_depth, reply, analysis,
                   num_searches, synth_input, prompt, result, ui, served>>

\* the tertiary search, under the category of the classification
TertiarySearch ==
    /\ pc = "tertiary"
    /\ IF LenRaises(num_searches, 4, analysis)
       THEN /\ Raise("TypeError")
            /\ UNCHANGED <<all_search_results, last_results, calls>>
       ELSE IF WantTertiary(num_searches, analysis)
       THEN Search(3, analysis.search_terms.items[3], analysis.category, "synthesize")
       ELSE /\ pc' = "synthesize"
            /\ UNCHANGED <<all_search_results, last_results, calls, exc>>
    /\ UNCHANGED <<report_templates, agent_ready, question, research_depth, reply, analysis,
                   num_searches, synth_input, prompt, result, ui, served>>

\* Step 3: generate_enhanced_report, then the returned dict
Synthesize ==
    /\ pc = "synthesize"
    /\ synth_input' = all_search_results
    /\ IF JoinRaises(analysis)
       THEN /\ Raise("TypeError")       \* ', '.join(...) while the prompt is built
            /\ UNCHANGED <<prompt, result, calls>>
       ELSE /\ prompt' = BuildPrompt(question, all_search_results, analysis,
                                     TemplateFor(report_templates, analysis.category))
            /\ \/ /\ Raise("APIError")  \* the LLM call raises
                  /\ calls' = Append(calls, Call("synthesize", question,
                                                 analysis.category, "raised"))
                  /\ UNCHANGED result
               \/ \E report \in Reports :
                    /\ calls' = Append(calls, Call("synthesize", question,
                                                   analysis.category, "ok"))
                    /\ IF LookupRaises(report_templates, analysis.category)
                       THEN Raise("KeyError") /\ UNCHANGED result
                       ELSE /\ result' = ResearchResult(question, analysis, all_search_results,
                                                        report, report_templates)
                            /\ pc' = "returned"
                            /\ exc' = exc
    /\ UNCHANGED <<report_templates, agent_ready, question, research_depth, reply, analysis,
                   num_searches, all_search_results, last_results, ui, served>>

\* app.py: the handler shows the report
Present ==
    /\ pc = "returned"
    /\ ui' = ResultView(result)
    /\ pc' = "idle"
    /\ served' = TRUE
    /\ UNCHANGED <<report_templates, agent_ready, question, research_depth, reply, analysis,
                   num_searches, all_search_results, last_results, synth_input, prompt,
                   result, exc, calls>>

\* app.py: except Exception as e
HandleError ==
    /\ pc = "raised"
    /\ ui' = ErrorView
    /\ pc' = "idle"
    /\ served' = TRUE
    /\ UNCHANGED <<report_templates, agent_ready, question, research_depth, reply, analysis,
                   num_searches, all_search_results, last_results, synth_input, prompt,
                   result, exc, calls>>

Next ==
    \/ \E q \in Questions, d \in DepthLabels : Generate(q, d)
    \/ Classify
    \/ PrimarySearch
    \/ SecondarySearch
    \/ TertiarySearch
    \/ Synthesize
    \/ Present
    \/ HandleError

Spec == Init /\ [][Next]_vars

(***************************************************************************)
(* Properties of the classifier.                                           *)
(***************************************************************************)
\* the classifier LLM call of this request has returned
Classified == reply # NoReply

\* the reply is not JSON, or is JSON that is not an object
Unparseable(r) == ~r.json \/ r.type # "object"

\* the reply is a JSON object whose category is unknown or absent
OffTaxonomy(r) == r.json /\ r.type = "object" /\ r.category \notin valid_categories

SixCategories == {"competition", "advertising", "trends", "pricing", "reviews", "general"}

\* C1: whatever text the classifier LLM call returns, the category of the
\* Classification is one of the six tags, and it is "general" when the text is
\* not JSON, not an object, or carries an unknown or no category.
C1_CategoryInFixedSet ==
    Classified =>
        /\ analysis.category \in SixCategories
        /\ (Unparseable(reply) \/ OffTaxonomy(reply)) => analysis.category = "general"

\* C1 witness: an object with the unknown category "marketing" was classified as "general"
C1_Witness ==
    /\ Classified
    /\ OffTaxonomy(reply)
    /\ reply.category = "marketing"
    /\ analysis.category = "general"

C3_ParseFailureRecovered ==
    (Classified /\ (Unparseable(reply) \/ OffTaxonomy(reply))) =>
        /\ exc \in {"none", "APIError"}
        /\ ui.banner # "error" \/ exc = "APIError"

(***************************************************************************)
(* Properties of the driver.                                               *)
(***************************************************************************)
\* number of search calls issued so far in this request
SearchCalls == Cardinality({i \in DOMAIN calls : calls[i].op = "search"})

\* number of search terms of a Classification
TermCount(a) == IF a.search_terms.kind = "list" THEN Len(a.search_terms.items) ELSE 0

\* the search stage of this request is over
SearchesDone == pc \in {"synthesize", "returned"} \/ result # NoResult

\* the number of search calls the depth label and the number of terms call for
ExpectedSearches(depth, terms) ==
    CASE depth = "Quick Analysis" -> 1
      [] depth = "Deep Dive" -> IF terms >= 2 THEN 2 ELSE 1
      [] depth = "Comprehensive Report" ->
            IF terms >= 3 THEN 3 ELSE IF terms = 2 THEN 2 ELSE 1

SourcesInPrompt(p) ==
    Cardinality({i \in 1..(Len(p) - 8) : SubSeq(p, i, i + 8) = "**Source "})

\* C5 as stated: the list of search results passed to the synthesizer never
\* has more than 4 entries.
C5_Original == Len(synth_input) <= 4

\* C5 amended: the list passed to the synthesizer has up to 7 entries (3 + 2 + 2);
\* the synthesizer reads only the first 4 of them, so its prompt never embeds
\* more than 4 sources.
C5_PromptEmbedsAtMostFour ==
    /\ Len(synth_input) <= 7
    /\ prompt # "" =>
          /\ SourcesInPrompt(prompt) <= 4
          /\ ~Contains(prompt, "**Source 5:")

\* C5 witness: 7 results were passed to the synthesizer and 4 are in its prompt
C5_Witness ==
    /\ Len(synth_input) = 7
    /\ SourcesInPrompt(prompt) = 4

(***************************************************************************)
(* Properties of the error handling.                                       *)
(***************************************************************************)
\* the calls of this request of one kind
CallsOf(op) == {i \in DOMAIN calls : calls[i].op = op}

\* the search calls of this request in which the search API raised
FailedSearches == {i \in DOMAIN calls : calls[i].op = "search" /\ calls[i].outcome = "error"}

\* this step is a search call in which the search API raises
FailedSearchStep ==
    /\ pc \in {"primary", "secondary", "tertiary"}
    /\ Len(calls') = Len(calls) + 1
    /\ calls'[Len(calls')].outcome = "error"

\* the stage that follows a search stage
StageAfter(stage) ==
    CASE stage = "primary" -> "secondary"
      [] stage = "secondary" -> "tertiary"
      [] stage = "tertiary" -> "synthesize"

\* C6: a search call in which the search API raises returns the empty list and
\* raises nothing: the request moves on to the next stage with the results
\* gathered so far; a request with failed searches still issues every
\* depth-gated search call, and when it returns it has called the synthesizer
\* exactly once, with the results of the other calls, and holds a ResearchResult.
C6_SearchFailureTolerated ==
    /\ [][FailedSearchStep =>
            /\ last_results' = <<>>
            /\ all_search_results' = all_search_results
            /\ exc' = exc
            /\ pc' = StageAfter(pc)]_vars
    /\ []((SearchesDone /\ FailedSearches # {}) =>
            SearchCalls = ExpectedSearches(research_depth, TermCount(analysis)))
    /\ []((pc = "returned" /\ FailedSearches # {}) =>
            /\ result # NoResult
            /\ Cardinality(CallsOf("synthesize")) = 1
            /\ synth_input = all_search_results
            /\ result.search_results = all_search_results)

\* C6 witness: the primary search failed, the secondary search found results,
\* and the request returned a ResearchResult
C6_Witness ==
    /\ pc = "returned"
    /\ calls[2].outcome = "error"
    /\ SearchCalls = 2
    /\ Len(all_search_results) = 2
    /\ result.report # Missing

\* the LLM call of the classifier (op = "classify") or synthesizer raised
LLMRaised(op) == \E i \in CallsOf(op) : calls[i].outcome = "raised"

\* C7: when the LLM call of the classifier or of the synthesizer raises, the
\* exception leaves research_and_analyze: the call is the last of the request
\* and was made once, no ResearchResult exists, and the page ends on the error
\* banner with no report and no sources.
C7_LLMFailurePropagates ==
    \A op \in {"classify", "synthesize"} :
        LLMRaised(op) =>
            /\ exc = "APIError"
            /\ pc \in {"raised", "idle"}
            /\ result = NoResult
            /\ Cardinality(CallsOf(op)) = 1
            /\ calls[Len(calls)].op = op
            /\ pc = "idle" => (ui.banner = "error" /\ ui.report = "" /\ ui.sources = <<>>)

\* C7 witness: the classifier's LLM call raised and the page shows the error banner
C7_Witness ==
    /\ LLMRaised("classify")
    /\ pc = "idle"
    /\ ui.banner = "error"
    /\ Len(calls) = 1

(***************************************************************************)
(* Properties of the call order and of the templates.                      *)
(***************************************************************************)
\* the search terms of a Classification
Terms(a) == IF a.search_terms.kind = "list" THEN a.search_terms.items ELSE <<>>

\* the calls of this request, without their outcomes
CallShapes == [i \in DOMAIN calls |-> <<calls[i].op, calls[i].query, calls[i].search_type>>]

\* classify, the searches the depth label calls for, synthesize
CallOrder(firstQuery) ==
    <<<<"classify", question, "">>>>
    \o <<<<"search", firstQuery, analysis.category>>>>
    \o (IF research_depth \in {"Deep Dive", "Comprehensive Report"} /\ Len(Terms(analysis)) >= 2
        THEN <<<<"search", Terms(analysis)[2], "general">>>> ELSE <<>>)
    \o (IF research_depth = "Comprehensive Report" /\ Len(Terms(analysis)) >= 3
        THEN <<<<"search", Terms(analysis)[3], analysis.category>>>> ELSE <<>>)
    \o <<<<"synthesize", question, analysis.category>>>>

\* C8 as stated: a completed request made, in this order and nothing else, one
\* classify call, the first search with the first search term under the
\* classified category, the depth-gated second search (second term, "general")
\* and third search (third term, classified category), and one synthesize call.
C8_Original ==
    result # NoResult =>
        /\ Len(Terms(analysis)) >= 1
        /\ CallShapes = CallOrder(Terms(analysis)[1])

\* C8 amended: the same order, where the first search uses the first search
\* term, or the original question when the classification has no search term
\* (an empty or null search_terms).
C8_CallOrder ==
    result # NoResult =>
        CallShapes = CallOrder(IF Len(Terms(analysis)) >= 1
                               THEN Terms(analysis)[1] ELSE question)

\* C8 witness: a completed request of five calls, the second search under "general"
C8_Witness ==
    /\ pc = "returned"
    /\ Len(calls) = 5
    /\ analysis.category = "pricing"
    /\ calls[3].search_type = "general"
    /\ calls[4].search_type = "pricing"

\* the section names of the template table in upper case
UpperCaseSections ==
    [c \in SixCategories |->
      CASE c = "competition" -> <<"MARKET POSITION", "COMPETITOR STRENGTHS/WEAKNESSES",
                                  "COMPETITIVE GAPS", "STRATEGIC RECOMMENDATIONS">>
        [] c = "advertising" -> <<"CURRENT AD LANDSCAPE", "OPPORTUNITY ANALYSIS",
                                  "BUDGET ALLOCATION", "CAMPAIGN RECOMMENDATIONS">>
        [] c = "trends" -> <<"EMERGING TRENDS", "CONSUMER BEHAVIOR",
                             "MARKET OPPORTUNITIES", "STRATEGIC POSITIONING">>
        [] c = "pricing" -> <<"PRICE ANALYSIS", "COMPETITIVE PRICING",
                              "VALUE POSITIONING", "PRICING RECOMMENDATIONS">>
        [] c = "reviews" -> <<"REVIEW ANALYSIS", "CUSTOMER PAIN POINTS",
                              "SATISFACTION DRIVERS", "IMPROVEMENT AREAS">>
        [] c = "general" -> <<"MARKET OVERVIEW", "KEY INSIGHTS",
                              "STRATEGIC OPPORTUNITIES", "ACTION PLAN">>]

\* C9 as stated: the prompt contains the title of the category's template and
\* its 4 section names, each character for character as stored in the table.
C9_Original ==
    prompt # "" =>
        /\ Contains(prompt, ReportTemplates[analysis.category].title)
        /\ \A i \in 1..4 : Contains(prompt, ReportTemplates[analysis.category].sections[i])

\* C9 amended: the prompt contains the title of the category's template
\* verbatim, and its 4 section names converted to upper case.
C9_PromptCarriesTemplate ==
    prompt # "" =>
        /\ Contains(prompt, ReportTemplates[analysis.category].title)
        /\ \A i \in 1..4 : Contains(prompt, UpperCaseSections[analysis.category][i])

\* C9 witness: a prompt was built for the category "reviews"
C9_Witness ==
    /\ prompt # ""
    /\ analysis.category = "reviews"
    /\ Contains(prompt, "## [U+1F4CA] CUSTOMER PAIN POINTS\n")

\* C10: a returned ResearchResult has report_type equal to the category of the
\* Classification and template_used equal to the title of that category in the
\* template table, the title the prompt carries; "pricing" gives the pricing
\* title; and no synthesize call that returned is followed by a failed lookup.
C10_TemplateUsed ==
    /\ result # NoResult =>
          /\ result.report_type = analysis.category
          /\ result.template_used = report_templates[analysis.category].title
          /\ Contains(prompt, "REPORT TYPE: " \o result.template_used \o "\n")
          /\ analysis.category = "pricing" =>
                result.template_used = "[U+1F4B0] Pricing Strategy Report"
    /\ \A i \in CallsOf("synthesize") : calls[i].outcome = "ok" => result # NoResult

\* C10 witness: "pricing" under "Deep Dive", two searches, the pricing title returned
C10_Witness ==
    /\ pc = "returned"
    /\ analysis.category = "pricing"
    /\ research_depth = "Deep Dive"
    /\ SearchCalls = 2
    /\ result.template_used = "[U+1F4B0] Pricing Strategy Report"

(***************************************************************************)
(* Properties of the aggregate and of the sources.                         *)
(***************************************************************************)
\* this step is a call of search_amazon_data
SearchStep ==
    /\ Len(calls') = Len(calls) + 1
    /\ calls'[Len(calls')].op = "search"

\* most results the search made at a stage adds to the aggregate
SliceOfStage(stage) == IF stage = "primary" THEN 3 ELSE 2

\* the first n entries of a list (all of it when it is shorter)
FirstAtMost(seq, n) == [i \in 1..(IF Len(seq) < n THEN Len(seq) ELSE n) |-> seq[i]]

\* the non-empty links of a list of results, in order
NonEmptyLinks(results) ==
    LET linked == SelectSeq(results, LAMBDA r : r.link # "")
    IN  [i \in 1..Len(linked) |-> linked[i].link]

\* C11: every search call returns at most 6 records and appends to the
\* aggregate the first at most 3 of them when it is the first search of the
\* request, the first at most 2 when it is the second or third; no other step
\* of a running request touches the aggregate, which starts empty; and the
\* sources of a returned ResearchResult are the non-empty links of that
\* aggregate, in order, duplicates kept.
C11_AggregateAndSources ==
    /\ [][SearchStep =>
            /\ Len(last_results') <= 6
            /\ all_search_results' =
                  all_search_results \o FirstAtMost(last_results', SliceOfStage(pc))]_vars
    /\ [][(~SearchStep /\ pc # "idle") => all_search_results' = all_search_results]_vars
    /\ [](pc \in {"classify", "primary"} => all_search_results = <<>>)
    /\ [](result # NoResult =>
            /\ result.search_results = all_search_results
            /\ result.sources = NonEmptyLinks(all_search_results))

\* C11 witness: three searches gave 3 + 2 + 2 results, the last call returned 6
\* records, one result has no link and one link occurs twice in the sources
C11_Witness ==
    /\ pc = "returned"
    /\ SearchCalls = 3
    /\ Len(last_results) = 6
    /\ Len(result.search_results) = 7
    /\ Len(result.sources) < 7
    /\ \E i, j \in DOMAIN result.sources : i < j /\ result.sources[i] = result.sources[j]

(***************************************************************************)
(* Properties of the agent state across requests.                          *)
(***************************************************************************)
\* nothing of an earlier request is present
NothingCarriedOver ==
    /\ reply = NoReply
    /\ analysis = NoAnalysis
    /\ num_searches = 0
    /\ all_search_results = <<>>
    /\ last_results = <<>>
    /\ synth_input = <<>>
    /\ prompt = ""
    /\ result = NoResult
    /\ exc = "none"
    /\ calls = <<>>

\* C12: no step of any request, returning or raising, changes the template
\* table or the readiness of the agent: the table is the 6-entry table built
\* at construction after any number of requests; a request starts with nothing
\* carried over from earlier requests, its calls are its own (at most five,
\* the first one the classification of its own question), and what it returns
\* holds its own question, Classification and aggregate.
C12_RequestsIndependent ==
    /\ [][report_templates' = report_templates /\ agent_ready' = agent_ready]_vars
    /\ [](report_templates = ReportTemplates /\ Cardinality(DOMAIN report_templates) = 6)
    /\ [](pc = "classify" => NothingCarriedOver)
    /\ [](calls # <<>> =>
            /\ Len(calls) <= 5
            /\ calls[1].op = "classify"
            /\ calls[1].query = question)
    /\ [](result # NoResult =>
            /\ result.question = question
            /\ result.analysis = analysis
            /\ Len(result.search_results) <= 7)

\* C12 witness: a request returned after an earlier request had been served
C12_Witness ==
    /\ served
    /\ pc = "returned"
    /\ result.question = question
    /\ report_templates = ReportTemplates

====
